---- MODULE Spec2Model ----
(***************************************************************************)
(* Model of proxy_manager.py: three asyncio loops (fetch_and_store_loop,   *)
(* cleanup_loop, stability_monitor_loop) sharing one remote store with two *)
(* collections, /proxies (the working set) and /stable_proxies (the stable *)
(* set).  A step of the model is the code that runs between two awaits of  *)
(* one coroutine; network calls draw their outcome from the environment.   *)
(***************************************************************************)
EXTENDS Integers, Sequences, FiniteSets, TLC

(***************************************************************************)
(* Bounds of the model and constants of the program.                       *)
(***************************************************************************)
\* The limiter's size (CONCURRENCY_LIMIT, 200 in the source), scaled down so
\* that a batch of three candidates makes tasks wait for a permit.
CONCURRENCY_LIMIT == 2
STABILITY_THRESHOLD == 600
\* The clock advances in steps of TickStep seconds up to MaxTime.
TickStep == 600
MaxTime == 600
\* The store generates keys 1..MaxKey in /proxies and 1..MaxStableKey in
\* /stable_proxies; a POST beyond that is refused (a non-200 status).
MaxKey == 2
MaxStableKey == 2

\* Characters of the bulk text; WS are the ones str.strip() removes (the
\* characters c with c.isspace()): space, \t, \n, \r, \f, the vertical tab
\* (U+000B), the separators U+001C..U+001F, U+0085, U+00A0 and U+1680.  The
\* spaces from U+2000 on (U+2000..U+200A, U+2028, U+2029, U+202F, U+205F,
\* U+3000) cannot be written in a string of this language and are no
\* character of the model's texts.
NL == "\n"
VT == ""
FS == ""
GS == ""
RS == ""
US == ""
NEL == ""
NBSP == " "
OGHAM == " "
WS == {" ", NL, "\t", "\r", "\f", VT, FS, GS, RS, US, NEL, NBSP, OGHAM}
\* val.get("address") of a record without that field.
None == <<"None">>

(***************************************************************************)
(* Pure helpers: str.strip, str.split, dict.get, truthiness.               *)
(***************************************************************************)
RECURSIVE LStrip(_)
LStrip(s) ==
    IF s # <<>> /\ Head(s) \in WS THEN LStrip(Tail(s)) ELSE s

RECURSIVE RStrip(_)
RStrip(s) ==
    IF s # <<>> /\ s[Len(s)] \in WS THEN RStrip(SubSeq(s, 1, Len(s) - 1)) ELSE s

\* A mutant of Strip: the candidate is used as received.
StripNothing(s) == s

\* proxy_addr.strip() / text.strip()
Strip(s) == LStrip(RStrip(s))

\* text.split('\n'): always at least one piece, empty pieces kept.
RECURSIVE Split(_)
Split(s) ==
    IF \E i \in 1..Len(s) : s[i] = NL
    THEN LET i == CHOOSE j \in 1..Len(s) :
                     s[j] = NL /\ \A h \in 1..(j - 1) : s[h] # NL
         IN <<SubSeq(s, 1, i - 1)>> \o Split(SubSeq(s, i + 1, Len(s)))
    ELSE <<s>>

\* val.get(f, d)
Get(val, f, d) == IF f \in DOMAIN val THEN val[f] ELSE d

\* Python truthiness of val.get("address")
Truthy(v) == v # None /\ v # <<>>

\* {val.get("address") for val in data.values() if val.get("address")}
AddressesOf(data) ==
    {Get(data[k], "address", None) : k \in {j \in DOMAIN data : Truthy(Get(data[j], "address", None))}}

\* The orders in which the body of a JSON object may list the keys S:
\* data.items() walks them in the order of the body, which is the store's.
KeyOrders(S) ==
    {q \in [1..Cardinality(S) -> S] :
        \A i, j \in 1..Cardinality(S) : q[i] = q[j] => i = j}

\* A value of a body that is no JSON object: a string, a number, a list or
\* null.  val.get raises on it wherever the code meets it, whatever the time
\* and the stable set: at line 147 in the monitor, at line 121 in the cleaner,
\* at line 40 in get_existing_proxies.  The objects of the model's bodies are
\* records whose address is a string and whose created_at is a number; an
\* object with a field of another type is no Junk and no value of the model.
Junk == [junk |-> TRUE]

\* A body that is no JSON object at all, though truthy (a list, a string, a
\* number): data.items() raises at line 146 before any entry is looked at,
\* which leaves the monitor where a Junk first entry leaves it.
NotAnObject == [k \in {0} |-> Junk]

\* The malformed bodies json() decodes: the object of the store with some of
\* its values, not all, replaced by Junk, and the body that is no object.
JunkBodies(data) ==
    {[k \in DOMAIN data |-> IF k \in J THEN Junk ELSE data[k]] :
        J \in (SUBSET DOMAIN data) \ {{}, DOMAIN data}} \cup {NotAnObject}

(***************************************************************************)
(* Outcomes of the network calls.                                          *)
(***************************************************************************)
\* A store read: 200 with a JSON body, another status, a transport error, or
\* a body that is not the expected JSON object.
ReadOutcomes == {"ok", "status", "exc", "malformed"}
\* A store write (POST / DELETE): 200, another status, or a transport error.
\* A write that does not return 200 leaves the store unchanged.
WriteOutcomes == {"ok", "status", "exc"}

\* A probe through the candidate proxy: status 200, another status, or an
\* error (timeout, refused connection).
ProbeOutcomes == {"200", "other", "exc"}

\* A mutant of IsProxyAlive: every probe counts as failed.
IsProxyAliveNever(o) == FALSE

\* A mutant of IsProxyAlive: an error of the probe counts as alive.
IsProxyAliveOnError(o) == o \in {"200", "exc"}

\* Lines 24-31: is_proxy_alive: response.status == 200, False on any error.
IsProxyAlive(o) == o = "200"

\* A mutant of Caught: the handler lets the error through.
CaughtNever(o) == FALSE

\* `except Exception` (lines 42, 68, 92, 105, 127, 165) and the bare `except`
\* of line 30: every error a network call raises is an Exception.
Caught(o) == o \in {"exc", "malformed"}

(***************************************************************************)
(* Inputs: bulk texts of the proxy source and the store's initial content. *)
(***************************************************************************)
A == <<"a">>
B == <<"b">>

\* Bulk texts of several candidates: X, other, X; an entry padded with a
\* vertical tab, a blank line and a trailing newline.
BulkTexts ==
    { <<"a", NL, "b", NL, "a">>,
      <<"a", VT, NL, NL, "b", NL>> }

\* Bulk texts of one candidate each.
SingleTexts == { <<" ", "b", NL>> }

\* Lines 56-61: proxy_data; last_checked and created_at are two readings
\* of the clock, the second no earlier than the first.
ProxyRecord(addr, checked, created) ==
    [address |-> addr, last_checked |-> checked, created_at |-> created,
     status |-> "active"]

\* Working sets the store may hold when the process starts: records written
\* by earlier runs, among them records without created_at or without address.
InitWorkingSets ==
    { <<>>,
      <<ProxyRecord(A, 0, 0)>>,
      <<ProxyRecord(A, 0, 0), [address |-> B, last_checked |-> 0, status |-> "active"]>>,
      <<ProxyRecord(A, 0, 0), [created_at |-> 0, last_checked |-> 0, status |-> "active"]>> }

\* A working set of three entries, two of them of one address (what two
\* inserts of one address leave behind).
PoolWorkingSet == <<ProxyRecord(A, 0, 0), ProxyRecord(B, 0, 0), ProxyRecord(A, 0, 0)>>

VARIABLES
    now,              \* time.time()
    bulk,             \* the text the bulk source serves
    ws,               \* /proxies: key -> ProxyRecord
    nextKey,          \* next key the store generates in /proxies
    stable,           \* /stable_proxies: key -> StableRecord
    nextStableKey,    \* next key the store generates in /stable_proxies
    fpc,              \* fetch_and_store_loop: position
    existing,         \* fetch_and_store_loop: the known set of this cycle
    ftasks,           \* validate_and_add tasks of this cycle
    fsem,             \* permits left in the fetcher's semaphore
    cpc,              \* cleanup_loop: position
    ctasks,           \* check_and_delete tasks of this cycle
    csem,             \* permits left in the cleaner's semaphore
    spc,              \* stability_monitor_loop: position
    sdata,            \* stability_monitor_loop: data (the working set as read)
    skeys,            \* stability_monitor_loop: the keys of data in body order
    current_time,     \* stability_monitor_loop: current_time
    stable_existing,  \* stability_monitor_loop: stable_existing
    sidx,             \* stability_monitor_loop: index of the entry in turn
    hist              \* history of the run, read by the properties only

storeVars == <<bulk, ws, nextKey, stable, nextStableKey>>
fetchVars == <<fpc, existing, ftasks, fsem>>
cleanVars == <<cpc, ctasks, csem>>
stabVars == <<spc, sdata, skeys, current_time, stable_existing, sidx>>
vars == <<now, bulk, ws, nextKey, stable, nextStableKey, fpc, existing, ftasks, fsem,
          cpc, ctasks, csem, spc, sdata, skeys, current_time, stable_existing, sidx,
          hist>>

(***************************************************************************)
(* The store.                                                              *)
(***************************************************************************)
\* A mutant of StorePost: the store files the record under its first key.
StorePostOverFirst(coll, key, rec) ==
    [k \in DOMAIN coll \cup {1} |-> IF k = 1 THEN rec ELSE coll[k]]

\* A mutant of StorePost: the store answers 200 and files nothing.
StorePostNothing(coll, key, rec) == coll

\* POST {collection}.json: the store files the record under a new key.
StorePost(coll, key, rec) ==
    [k \in DOMAIN coll \cup {key} |-> IF k = key THEN rec ELSE coll[k]]

\* A mutant of StoreDelete: the store answers 200 and keeps the record.
StoreDeleteKeeps(coll, key) == coll

\* A mutant of StoreDelete: the record of the lowest key is removed, whatever
\* the key asked for.
StoreDeleteFirst(coll, key) ==
    [k \in DOMAIN coll \ {CHOOSE m \in DOMAIN coll : \A j \in DOMAIN coll : m <= j}
        |-> coll[k]]

\* DELETE {collection}/{key}.json: deleting an absent key is no error.
StoreDelete(coll, key) ==
    [k \in DOMAIN coll \ {key} |-> coll[k]]

EmptyColl == [k \in {} |-> 0]

FTask(raw) ==
    [raw |-> raw, addr |-> <<>>, pc |-> "waiting", probe |-> "none",
     stamp |-> 0, created |-> 0]
CTask(key, addr) == [key |-> key, addr |-> addr, pc |-> "waiting", probe |-> "none"]

\* A mutant of CanAcquire: the limiter lets every task through.
CanAcquireAlways(sem) == TRUE

\* Lines 48, 99: `async with semaphore` goes on when a permit is left, and
\* waits otherwise.
CanAcquire(sem) == sem > 0

\* A mutant of Release: the permit is kept.
ReleaseKeeps(sem) == sem

\* Lines 48, 99: the exit of `async with semaphore`, on return and on error
\* alike, gives the permit back.
Release(sem) == sem + 1

FDone == {"blank", "known", "dead", "added", "failed"}
CDone == {"alive", "removed", "delfailed"}

\* Lines 88-89, 122: asyncio.gather returns when every task has returned, and
\* the loop goes on to its sleep.
AfterGather(tasks, done) ==
    IF \A i \in DOMAIN tasks : tasks[i].pc \in done THEN "sleep" ELSE "gather"

InitRest ==
    /\ now = 0
    /\ \E w \in InitWorkingSets : ws = [k \in DOMAIN w |-> w[k]]
    /\ nextKey = Cardinality(DOMAIN ws) + 1
    /\ stable = EmptyColl
    /\ nextStableKey = 1
    /\ fpc = "start" /\ existing = {} /\ ftasks = <<>> /\ fsem = CONCURRENCY_LIMIT
    /\ cpc = "start" /\ ctasks = <<>> /\ csem = CONCURRENCY_LIMIT
    /\ spc = "start" /\ sdata = EmptyColl /\ skeys = <<>> /\ current_time = 0
    /\ stable_existing = {} /\ sidx = 1
    /\ hist = [fRead |-> "none", fSnap |-> {}, cRead |-> "none", sRead |-> "none",
               evicted |-> {}, sEvicted |-> {}, sRuns |-> 0]

\* The process starts, when the clock stands at MaxTime, on a working set of
\* three entries, more than the limiter has permits; the bulk source serves
\* several candidates.
InitPool ==
    /\ bulk \in BulkTexts
    /\ now = MaxTime
    /\ ws \in {EmptyColl, PoolWorkingSet}
    /\ nextKey = Cardinality(DOMAIN ws) + 1
    /\ stable = EmptyColl
    /\ nextStableKey = 1
    /\ fpc = "start" /\ existing = {} /\ ftasks = <<>> /\ fsem = CONCURRENCY_LIMIT
    /\ cpc = "start" /\ ctasks = <<>> /\ csem = CONCURRENCY_LIMIT
    /\ spc = "start" /\ sdata = EmptyColl /\ skeys = <<>> /\ current_time = 0
    /\ stable_existing = {} /\ sidx = 1
    /\ hist = [fRead |-> "none", fSnap |-> {}, cRead |-> "none", sRead |-> "none",
               evicted |-> {}, sEvicted |-> {}, sRuns |-> 0]

\* The process starts when the clock stands at MaxTime, on records an
\* earlier run wrote at time 0; the bulk source serves one candidate.
InitAll ==
    /\ bulk \in SingleTexts
    /\ now = MaxTime
    /\ \E w \in InitWorkingSets : ws = [k \in DOMAIN w |-> w[k]]
    /\ nextKey = Cardinality(DOMAIN ws) + 1
    /\ stable = EmptyColl
    /\ nextStableKey = 1
    /\ fpc = "start" /\ existing = {} /\ ftasks = <<>> /\ fsem = CONCURRENCY_LIMIT
    /\ cpc = "start" /\ ctasks = <<>> /\ csem = CONCURRENCY_LIMIT
    /\ spc = "start" /\ sdata = EmptyColl /\ skeys = <<>> /\ current_time = 0
    /\ stable_existing = {} /\ sidx = 1
    /\ hist = [fRead |-> "none", fSnap |-> {}, cRead |-> "none", sRead |-> "none",
               evicted |-> {}, sEvicted |-> {}, sRuns |-> 0]

\* The process starts; the bulk source serves one candidate.
Init ==
    /\ bulk \in SingleTexts
    /\ InitRest

\* The process starts; the bulk source serves several candidates.
InitBulk ==
    /\ bulk \in BulkTexts
    /\ InitRest

\* time.time() moves on.
Tick ==
    /\ now + TickStep <= MaxTime
    /\ now' = now + TickStep
    /\ UNCHANGED <<storeVars, fetchVars, cleanVars, stabVars, hist>>

(***************************************************************************)
(* fetch_and_store_loop and its validate_and_add tasks.                    *)
(***************************************************************************)
\* Lines 78-83, 90-93: GET PROXY_API_URL.
FetchBulk ==
    /\ fpc = "start"
    /\ \E o \in WriteOutcomes :
         \/ /\ o = "ok"
            /\ LET proxies == Split(Strip(bulk))
               IN ftasks' = [i \in 1..Len(proxies) |-> FTask(proxies[i])]
            /\ fpc' = "existing"
         \/ /\ o = "status"
            /\ ftasks' = <<>>
            /\ fpc' = "sleep"
         \/ /\ o = "exc"
            /\ ftasks' = <<>>
            /\ fpc' = IF Caught(o) THEN "sleep" ELSE "crashed"
    /\ UNCHANGED <<now, storeVars, existing, fsem, cleanVars, stabVars, hist>>

\* Line 85: existing = await get_existing_proxies(session, FIREBASE_BASE_URL)
ReadExisting ==
    /\ fpc = "existing"
    /\ \E o \in ReadOutcomes :
         /\ existing' = IF o = "ok" THEN AddressesOf(ws) ELSE {}
         /\ fpc' = IF o \in {"ok", "status"} \/ Caught(o) THEN "gather" ELSE "crashed"
         /\ hist' = [hist EXCEPT !.fRead = IF o = "ok" THEN "ok" ELSE "fail",
                                 !.fSnap = existing']
    /\ UNCHANGED <<now, storeVars, ftasks, fsem, cleanVars, stabVars>>

\* Lines 48-55: a task gets a permit (in the order the tasks were created),
\* strips its candidate, returns if it is blank or known, else starts the probe.
StartTask(i) ==
    /\ fpc = "gather"
    /\ ftasks[i].pc = "waiting"
    /\ \A j \in 1..(i - 1) : ftasks[j].pc # "waiting"
    /\ CanAcquire(fsem)
    /\ LET proxy_addr == Strip(ftasks[i].raw)
       IN IF proxy_addr = <<>>
          THEN /\ ftasks' = [ftasks EXCEPT ![i].pc = "blank"]
               /\ fsem' = fsem
          ELSE IF proxy_addr \in existing
          THEN /\ ftasks' = [ftasks EXCEPT ![i].pc = "known", ![i].addr = proxy_addr]
               /\ fsem' = fsem
          ELSE /\ ftasks' = [ftasks EXCEPT ![i].pc = "probing", ![i].addr = proxy_addr]
               /\ fsem' = fsem - 1
    /\ fpc' = AfterGather(ftasks', FDone)
    /\ UNCHANGED <<now, storeVars, existing, cleanVars, stabVars, hist>>

\* The readings of the clock a call of time.time() may return: the clock
\* may have moved on since it was last read.
ClockReadings == {t \in {now, now + TickStep} : t <= MaxTime}

\* Lines 55-63: is_proxy_alive returns; a live candidate is stamped with two
\* readings of the clock (lines 58 and 59) and posted.
ProbeDone(i) ==
    /\ fpc = "gather"
    /\ ftasks[i].pc = "probing"
    /\ \E o \in ProbeOutcomes :
         IF IsProxyAlive(o)
         THEN /\ \E t \in ClockReadings :
                   /\ ftasks' = [ftasks EXCEPT ![i].pc = "posting", ![i].probe = o,
                                               ![i].stamp = now, ![i].created = t]
                   /\ now' = t
              /\ fsem' = fsem
         ELSE /\ ftasks' = [ftasks EXCEPT ![i].pc = "dead", ![i].probe = o]
              /\ fsem' = Release(fsem)
              /\ now' = now
    /\ fpc' = AfterGather(ftasks', FDone)
    /\ UNCHANGED <<storeVars, existing, cleanVars, stabVars, hist>>

\* Lines 63-69: the POST to /proxies returns.
PostDone(i) ==
    /\ fpc = "gather"
    /\ ftasks[i].pc = "posting"
    /\ \E o \in WriteOutcomes :
         \/ /\ o = "ok"
            /\ nextKey <= MaxKey
            /\ ws' = StorePost(ws, nextKey,
                         ProxyRecord(ftasks[i].addr, ftasks[i].stamp, ftasks[i].created))
            /\ nextKey' = nextKey + 1
            /\ existing' = existing \cup {ftasks[i].addr}
            /\ ftasks' = [ftasks EXCEPT ![i].pc = "added", ![i].stamp = 0,
                                        ![i].created = 0]
            /\ fpc' = AfterGather(ftasks', FDone)
         \/ /\ o = "status"
            /\ ftasks' = [ftasks EXCEPT ![i].pc = "failed", ![i].stamp = 0,
                                        ![i].created = 0]
            /\ fpc' = AfterGather(ftasks', FDone)
            /\ UNCHANGED <<ws, nextKey, existing>>
         \/ /\ o = "exc"
            /\ ftasks' = [ftasks EXCEPT ![i].pc = "failed", ![i].stamp = 0,
                                        ![i].created = 0]
            /\ fpc' = IF Caught(o) THEN AfterGather(ftasks', FDone) ELSE "crashed"
            /\ UNCHANGED <<ws, nextKey, existing>>
    /\ fsem' = Release(fsem)
    /\ UNCHANGED <<now, bulk, stable, nextStableKey, cleanVars, stabVars, hist>>

\* Line 95: asyncio.sleep(FETCH_INTERVAL) returns; the next cycle begins.
WakeFetch ==
    /\ fpc = "sleep"
    /\ fpc' = "start"
    /\ existing' = {}
    /\ ftasks' = <<>>
    /\ hist' = [hist EXCEPT !.fRead = "none", !.fSnap = {}]
    /\ UNCHANGED <<now, storeVars, fsem, cleanVars, stabVars>>

FetchNext ==
    \/ FetchBulk
    \/ ReadExisting
    \/ \E i \in DOMAIN ftasks : StartTask(i)
    \/ \E i \in DOMAIN ftasks : ProbeDone(i)
    \/ \E i \in DOMAIN ftasks : PostDone(i)
    \/ WakeFetch

(***************************************************************************)
(* cleanup_loop and its check_and_delete tasks.                            *)
(***************************************************************************)
\* Lines 120-121: one task per (key, val) whose val.get("address") is truthy,
\* in the order in which the body lists the keys.
CleanupTasks(keys, data) ==
    LET HasAddress(k) == Truthy(Get(data[k], "address", None))
        kept == SelectSeq(keys, HasAddress)
    IN [i \in 1..Len(kept) |-> CTask(kept[i], data[kept[i]].address)]

\* Lines 114-128: GET /proxies.json.
ReadClean ==
    /\ cpc = "start"
    /\ \E o \in ReadOutcomes :
         /\ IF o = "ok" /\ DOMAIN ws # {}
            THEN /\ \E keys \in KeyOrders(DOMAIN ws) : ctasks' = CleanupTasks(keys, ws)
                 /\ cpc' = AfterGather(ctasks', CDone)
            ELSE /\ ctasks' = <<>>
                 /\ cpc' = IF o \in {"ok", "status"} \/ Caught(o)
                           THEN "sleep" ELSE "crashed"
         /\ hist' = [hist EXCEPT !.cRead = IF o = "ok" THEN "ok" ELSE "fail"]
    /\ UNCHANGED <<now, storeVars, fetchVars, csem, stabVars>>

\* Lines 99-100: a task gets a permit and starts its probe.
CStartTask(i) ==
    /\ cpc = "gather"
    /\ ctasks[i].pc = "waiting"
    /\ \A j \in 1..(i - 1) : ctasks[j].pc # "waiting"
    /\ CanAcquire(csem)
    /\ ctasks' = [ctasks EXCEPT ![i].pc = "probing"]
    /\ csem' = csem - 1
    /\ UNCHANGED <<now, storeVars, fetchVars, cpc, stabVars, hist>>

\* Lines 100-102: is_proxy_alive returns; a dead entry's DELETE is sent.
CProbeDone(i) ==
    /\ cpc = "gather"
    /\ ctasks[i].pc = "probing"
    /\ \E o \in ProbeOutcomes :
         IF IsProxyAlive(o)
         THEN /\ ctasks' = [ctasks EXCEPT ![i].pc = "alive", ![i].probe = o]
              /\ csem' = Release(csem)
         ELSE /\ ctasks' = [ctasks EXCEPT ![i].pc = "deleting", ![i].probe = o]
              /\ csem' = csem
    /\ cpc' = AfterGather(ctasks', CDone)
    /\ UNCHANGED <<now, storeVars, fetchVars, stabVars, hist>>

\* Lines 102-106: the DELETE of /proxies/{key} returns.
CDeleteDone(i) ==
    /\ cpc = "gather"
    /\ ctasks[i].pc = "deleting"
    /\ \E o \in WriteOutcomes :
         \/ /\ o = "ok"
            /\ ws' = StoreDelete(ws, ctasks[i].key)
            /\ ctasks' = [ctasks EXCEPT ![i].pc = "removed"]
            /\ cpc' = AfterGather(ctasks', CDone)
            /\ hist' = [hist EXCEPT !.evicted =
                          IF \E s \in DOMAIN stable : stable[s].original_key = ctasks[i].key
                          THEN @ ELSE @ \cup {ctasks[i].key}]
         \/ /\ o = "status"
            /\ ctasks' = [ctasks EXCEPT ![i].pc = "delfailed"]
            /\ cpc' = AfterGather(ctasks', CDone)
            /\ UNCHANGED <<ws, hist>>
         \/ /\ o = "exc"
            /\ ctasks' = [ctasks EXCEPT ![i].pc = "delfailed"]
            /\ cpc' = IF Caught(o) THEN AfterGather(ctasks', CDone) ELSE "crashed"
            /\ UNCHANGED <<ws, hist>>
    /\ csem' = Release(csem)
    /\ UNCHANGED <<now, bulk, nextKey, stable, nextStableKey, fetchVars, stabVars>>

\* Line 130: asyncio.sleep(CLEANUP_INTERVAL) returns; the next cycle begins.
WakeClean ==
    /\ cpc = "sleep"
    /\ cpc' = "start"
    /\ ctasks' = <<>>
    /\ hist' = [hist EXCEPT !.cRead = "none"]
    /\ UNCHANGED <<now, storeVars, fetchVars, csem, stabVars>>

CleanNext ==
    \/ ReadClean
    \/ \E i \in DOMAIN ctasks : CStartTask(i)
    \/ \E i \in DOMAIN ctasks : CProbeDone(i)
    \/ \E i \in DOMAIN ctasks : CDeleteDone(i)
    \/ WakeClean

(***************************************************************************)
(* stability_monitor_loop.                                                 *)
(***************************************************************************)
\* A mutant of Age: a missing created_at counts as the epoch.
AgeFromEpoch(val, ct) == ct - Get(val, "created_at", 0)

\* Lines 148-150: created_at = val.get("created_at", current_time);
\* age = current_time - created_at
Age(val, ct) == ct - Get(val, "created_at", ct)

\* A mutant of ToPromote: a record of age STABILITY_THRESHOLD is passed over.
ToPromoteStrict(val, ct, known) ==
    /\ Age(val, ct) > STABILITY_THRESHOLD
    /\ Get(val, "address", None) \notin known

\* Line 151: age >= STABILITY_THRESHOLD and p_addr not in stable_existing
ToPromote(val, ct, known) ==
    /\ Age(val, ct) >= STABILITY_THRESHOLD
    /\ Get(val, "address", None) \notin known

\* Lines 153-158: stable_data
StableRecord(key, val, ct) ==
    [address |-> Get(val, "address", None), promoted_at |-> ct,
     original_key |-> key, age_seconds |-> Age(val, ct)]

\* A mutant of NextToPromote: the for loop finds no entry to promote.
NextToPromoteNone(keys, data, ct, known, i) == Len(keys) + 1

\* Lines 146-151: the for loop runs on, without awaiting, from entry i (in
\* body order) to the first entry to promote or the first that is no
\* object (val.get raises at line 147); Len(keys) + 1 when there is none.
RECURSIVE NextToPromote(_, _, _, _, _)
NextToPromote(keys, data, ct, known, i) ==
    IF i > Len(keys) THEN i
    ELSE IF data[keys[i]] = Junk THEN i
    ELSE IF ToPromote(data[keys[i]], ct, known) THEN i
    ELSE NextToPromote(keys, data, ct, known, i + 1)

\* History: the promotion cycle ends when pc is "sleep".  sRuns counts, up to
\* two, the consecutive cycles that read a working set holding a record of
\* age >= STABILITY_THRESHOLD and in which no write failed.
CycleEnd(h, pc) ==
    IF pc # "sleep" THEN h
    ELSE IF h.sRead = "ok" /\ \E k \in DOMAIN sdata :
                                 Age(sdata[k], current_time) >= STABILITY_THRESHOLD
    THEN [h EXCEPT !.sRuns = IF @ < 2 THEN @ + 1 ELSE @]
    ELSE [h EXCEPT !.sRuns = 0]

\* Where the monitor is once the for loop stands at entry i: past the last
\* entry and asleep, asleep after the AttributeError of val.get on an entry
\* i that is no object (line 147, caught at line 165), or awaiting the POST
\* of entry i.
AfterLoop(keys, data, i) ==
    IF i > Len(keys) THEN "sleep"
    ELSE IF data[keys[i]] = Junk THEN (IF Caught("exc") THEN "sleep" ELSE "crashed")
    ELSE "posting"

\* Lines 137-142, 163-166: GET /proxies.json.  A truthy body that json()
\* decodes is taken as data, whatever its shape: lines 142-144 run, and the
\* for loop raises where the body is no record.
SReadWs ==
    /\ spc = "start"
    /\ \E o \in ReadOutcomes :
         \/ /\ o = "ok" /\ DOMAIN ws # {}
            /\ sdata' = ws
            /\ \E q \in KeyOrders(DOMAIN ws) : skeys' = q
            /\ current_time' = now
            /\ spc' = "stable"
            /\ hist' = [hist EXCEPT !.sRead = "ok", !.sEvicted = hist.evicted]
         \/ /\ o = "malformed"
            /\ \E body \in JunkBodies(ws) :
                 /\ sdata' = body
                 /\ \E q \in KeyOrders(DOMAIN body) : skeys' = q
            /\ current_time' = now
            /\ spc' = "stable"
            /\ hist' = [hist EXCEPT !.sRead = "junk", !.sEvicted = hist.evicted,
                                    !.sRuns = 0]
         \/ /\ o # "ok" \/ DOMAIN ws = {}
            /\ UNCHANGED <<sdata, skeys, current_time>>
            /\ spc' = IF o \in {"ok", "status"} \/ Caught(o)
                      THEN "sleep" ELSE "crashed"
            /\ hist' = [hist EXCEPT !.sRead = IF o = "ok" THEN "ok" ELSE "fail",
                                    !.sEvicted = hist.evicted,
                                    !.sRuns = 0]
    /\ UNCHANGED <<now, storeVars, fetchVars, cleanVars, stable_existing, sidx>>

\* Line 144: stable_existing = await get_existing_proxies(session,
\* STABLE_PROXIES_URL); then the for loop up to its first POST.
SReadStable ==
    /\ spc = "stable"
    /\ \E o \in ReadOutcomes :
         /\ stable_existing' = IF o = "ok" THEN AddressesOf(stable) ELSE {}
         /\ sidx' = NextToPromote(skeys, sdata, current_time, stable_existing', 1)
         /\ spc' = IF o \in {"ok", "status"} \/ Caught(o)
                   THEN AfterLoop(skeys, sdata, sidx') ELSE "crashed"
    /\ hist' = CycleEnd(hist, spc')
    /\ UNCHANGED <<now, storeVars, fetchVars, cleanVars, sdata, skeys, current_time>>

\* Lines 159-166: the POST to /stable_proxies returns, and the for loop runs
\* on to its next POST.  An error the POST raises is caught by the handler of
\* line 165, outside the for loop.
SPostDone ==
    /\ spc = "posting"
    /\ \E o \in WriteOutcomes :
         \/ /\ o = "ok"
            /\ nextStableKey <= MaxStableKey
            /\ stable' = StorePost(stable, nextStableKey,
                             StableRecord(skeys[sidx], sdata[skeys[sidx]], current_time))
            /\ nextStableKey' = nextStableKey + 1
            /\ stable_existing' = stable_existing
                                    \cup {Get(sdata[skeys[sidx]], "address", None)}
            /\ sidx' = NextToPromote(skeys, sdata, current_time, stable_existing', sidx + 1)
            /\ spc' = AfterLoop(skeys, sdata, sidx')
            /\ hist' = CycleEnd(hist, spc')
         \/ /\ o = "status"
            /\ sidx' = NextToPromote(skeys, sdata, current_time, stable_existing, sidx + 1)
            /\ spc' = AfterLoop(skeys, sdata, sidx')
            /\ hist' = CycleEnd([hist EXCEPT !.sRead = "wfail"], spc')
            /\ UNCHANGED <<stable, nextStableKey, stable_existing>>
         \/ /\ o = "exc"
            /\ spc' = IF Caught(o) THEN "sleep" ELSE "crashed"
            /\ hist' = CycleEnd([hist EXCEPT !.sRead = "wfail"], spc')
            /\ UNCHANGED <<stable, nextStableKey, stable_existing, sidx>>
    /\ UNCHANGED <<now, bulk, ws, nextKey, fetchVars, cleanVars, sdata, skeys,
                   current_time>>

\* Line 168: asyncio.sleep(STABILITY_CHECK_INTERVAL) returns.
WakeStab ==
    /\ spc = "sleep"
    /\ spc' = "start"
    /\ sdata' = EmptyColl
    /\ skeys' = <<>>
    /\ current_time' = 0
    /\ stable_existing' = {}
    /\ sidx' = 1
    /\ hist' = [hist EXCEPT !.sRead = "none"]
    /\ UNCHANGED <<now, storeVars, fetchVars, cleanVars>>

StabNext ==
    \/ SReadWs
    \/ SReadStable
    \/ SPostDone
    \/ WakeStab

Next ==
    \/ Tick
    \/ FetchNext
    \/ CleanNext
    \/ StabNext

Spec == Init /\ [][Next]_vars

\* The three loops from the last reading of the clock on: the records of
\* the store have their full age and time stands still.
NextAll ==
    \/ FetchNext
    \/ CleanNext
    \/ StabNext

SpecAll == InitAll /\ [][NextAll]_vars

\* The fetcher alone on a bulk text of several candidates.
NextFetch ==
    \/ Tick
    \/ FetchNext

SpecFetch == InitBulk /\ [][NextFetch]_vars

\* The fetcher alone, with every network call returning (each has a timeout
\* or ends with the connection), every sleep ending, and the event loop
\* running each task that is ready.
SpecFetchLive == InitBulk /\ [][NextFetch]_vars /\ WF_vars(FetchNext)

\* The cleaner and the stability monitor: nothing is added to the working set.
NextEvict ==
    \/ Tick
    \/ CleanNext
    \/ StabNext

SpecEvict == Init /\ [][NextEvict]_vars

\* The stability monitor alone: the working set does not change.
NextStab ==
    \/ Tick
    \/ StabNext

SpecStab == Init /\ [][NextStab]_vars

\* The fetcher and the stability monitor: nothing is deleted from the
\* working set.
NextNoEvict ==
    \/ Tick
    \/ FetchNext
    \/ StabNext

SpecNoEvict == Init /\ [][NextNoEvict]_vars

\* The fetcher and the cleaner with more tasks than permits each.
NextPool ==
    \/ FetchNext
    \/ CleanNext

SpecPool == InitPool /\ [][NextPool]_vars

\* The steps of the cleaner and of the monitor in which the store call that
\* returns has succeeded; probes answer as they will.
CleanLive ==
    \/ ReadClean /\ hist'.cRead = "ok"
    \/ \E i \in DOMAIN ctasks : CStartTask(i)
    \/ \E i \in DOMAIN ctasks : CProbeDone(i)
    \/ \E i \in DOMAIN ctasks : CDeleteDone(i) /\ ctasks'[i].pc = "removed"
    \/ WakeClean

StabLive ==
    \/ SReadWs /\ hist'.sRead = "ok"
    \/ SReadStable /\ stable_existing' = AddressesOf(stable)
    \/ SPostDone /\ stable' # stable
    \/ WakeStab

NextLive ==
    \/ Tick
    \/ CleanLive
    \/ StabLive

\* The cleaner and the monitor with every store call succeeding: time goes
\* on, every network call returns (each has a timeout or ends with the
\* connection), every sleep ends, and the event loop runs each coroutine
\* that is ready.
SpecLive ==
    /\ Init /\ [][NextLive]_vars
    /\ WF_vars(Tick) /\ WF_vars(CleanLive) /\ WF_vars(StabLive)

(***************************************************************************)
(* Properties.                                                             *)
(***************************************************************************)
Addresses == {A, B}

\* The address a candidate line stands for: its characters other than
\* whitespace.
NotWS(c) == c \notin WS
CandidateAddress(raw) == SelectSeq(raw, NotWS)

TasksOf(X) == {i \in DOMAIN ftasks : CandidateAddress(ftasks[i].raw) = X}

\* C1: dedup within one ingestion cycle.  When a cycle is over, for every
\* address X that the candidate list holds more than once, that was absent
\* from the working set when the cycle read it, whose probes all returned
\* alive and whose inserts all returned 200, exactly one ProxyRecord for X
\* was inserted in the cycle.
C1_DedupWithinCycle ==
    (fpc = "sleep" /\ hist.fRead = "ok") =>
        \A X \in Addresses :
            ( /\ Cardinality(TasksOf(X)) >= 2
              /\ X \notin hist.fSnap
              /\ \A i \in TasksOf(X) : ftasks[i].pc \notin {"dead", "failed"} )
            => Cardinality({i \in TasksOf(X) : ftasks[i].pc = "added"}) = 1

\* C2: in every reachable state the stable set holds at most one
\* StableRecord per address.
C2_OneStableRecordPerAddress ==
    \A s, t \in DOMAIN stable :
        (Truthy(stable[s].address) /\ stable[s].address = stable[t].address) => s = t

\* C3: idempotent promotion.  After two promotion cycles against an
\* unchanged working set, every record of it that is older than the
\* stability threshold has exactly one StableRecord, whose original_key is
\* the record's key.
C3_IdempotentPromotion ==
    hist.sRuns = 2 =>
        \A k \in DOMAIN ws :
            (Truthy(Get(ws[k], "address", None))
                /\ Age(ws[k], current_time) >= STABILITY_THRESHOLD)
            => /\ Cardinality({s \in DOMAIN stable : stable[s].address = ws[k].address}) = 1
               /\ \A s \in DOMAIN stable :
                    stable[s].address = ws[k].address => stable[s].original_key = k

\* C4 as stated: once the cleaner has deleted a key that had no StableRecord
\* at that moment, no StableRecord with that original_key exists afterwards.
C4_NoPromotionAfterEviction ==
    \A s \in DOMAIN stable : stable[s].original_key \notin hist.evicted

\* C4, amended: a promotion cycle that reads the working set after the
\* cleaner deleted a key (one that had no StableRecord at that moment)
\* creates no StableRecord with that original_key.
C4_NoPromotionFromLaterSnapshot ==
    [][\A s \in DOMAIN stable' \ DOMAIN stable :
          stable'[s].original_key \notin hist.sEvicted]_vars

\* A promotion cycle that read the working set after an eviction has ended,
\* and it promoted another record.
C4_Witness ==
    /\ spc = "sleep"
    /\ hist.sRead = "ok"
    /\ hist.sEvicted # {}
    /\ \E s \in DOMAIN stable :
         stable[s].original_key \in DOMAIN sdata /\ stable[s].promoted_at = current_time

\* C5 as stated: an entry whose probe failed during an eviction cycle is
\* absent from the working set when that cycle ends.
C5_FailedProbeRemoved ==
    cpc = "sleep" =>
        \A i \in DOMAIN ctasks :
            ~IsProxyAlive(ctasks[i].probe) => ctasks[i].key \notin DOMAIN ws

\* C5, amended: an entry whose probe failed during an eviction cycle and
\* whose DELETE returned 200 is absent from the working set from then on, in
\* particular when that cycle ends.
C5_FailedProbeRemovedWhenDeleteSucceeds ==
    \A i \in DOMAIN ctasks :
        ctasks[i].pc = "removed" => ctasks[i].key \notin DOMAIN ws

\* An eviction cycle has ended in which the second entry's probe failed and
\* its DELETE succeeded, while the first entry stays.
C5_Witness ==
    /\ cpc = "sleep"
    /\ Len(ctasks) = 2
    /\ ctasks[1].pc = "alive" /\ ctasks[1].key \in DOMAIN ws
    /\ ctasks[2].pc = "removed" /\ ~IsProxyAlive(ctasks[2].probe)

\* C6: liveness gating on insert.  A record enters the working set only in
\* a step of a validate_and_add task whose probe of that address returned
\* status 200 in this cycle, and a task whose probe failed never inserts.
C6_LivenessGating ==
    [][ /\ \A k \in DOMAIN ws' \ DOMAIN ws :
             \E i \in DOMAIN ftasks :
                 /\ ftasks[i].pc = "posting" /\ ftasks[i].probe = "200"
                 /\ ftasks'[i].pc = "added"
                 /\ ws'[k].address = ftasks[i].addr
        /\ \A i \in DOMAIN ftasks :
             (ftasks[i].probe \in {"other", "exc"} /\ i \in DOMAIN ftasks')
                 => ftasks'[i].pc # "added" ]_vars

\* An ingestion cycle has inserted the record of a candidate probed alive.
C6_Witness ==
    \E i \in DOMAIN ftasks :
        /\ ftasks[i].pc = "added" /\ ftasks[i].probe = "200"
        /\ \E k \in DOMAIN ws :
             /\ "created_at" \in DOMAIN ws[k]
             /\ ws[k] = ProxyRecord(ftasks[i].addr, ws[k].last_checked, ws[k].created_at)
             /\ ws[k].last_checked <= ws[k].created_at

\* C7: store failure isolation.  No loop is ever left by an error; after a
\* failed store read the cleaner and the monitor are at their sleep, the
\* fetcher goes on with its batch and reaches its sleep, and a sleeping
\* loop can start its next cycle.
C7_StoreFailureIsolation ==
    /\ fpc # "crashed" /\ cpc # "crashed" /\ spc # "crashed"
    /\ hist.fRead = "fail" => fpc \in {"gather", "sleep"}
    /\ hist.cRead = "fail" => cpc = "sleep"
    /\ hist.sRead = "fail" => spc = "sleep"
    /\ hist.sRead = "junk" => spc \in {"stable", "posting", "sleep"}
    /\ fpc = "sleep" => ENABLED WakeFetch
    /\ cpc = "sleep" => ENABLED WakeClean
    /\ spc = "sleep" => ENABLED WakeStab

\* The three loops are at their sleep, each after a failed store read.
C7_Witness ==
    /\ hist.fRead = "fail" /\ fpc = "sleep"
    /\ hist.cRead = "fail" /\ cpc = "sleep"
    /\ hist.sRead = "fail" /\ spc = "sleep"

\* C8: age default.  No StableRecord is ever created for a working-set
\* record that has no created_at.
C8_NoTimestampNeverPromoted ==
    [][\A s \in DOMAIN stable' \ DOMAIN stable :
          "created_at" \in DOMAIN sdata[stable'[s].original_key]]_vars

\* A promotion cycle has gone through a snapshot holding a record without
\* created_at, at a time past the stability threshold, and has ended.
C8_Witness ==
    /\ spc = "sleep"
    /\ hist.sRead = "ok"
    /\ current_time >= STABILITY_THRESHOLD
    /\ sidx > Len(skeys)
    /\ \E k \in DOMAIN sdata : "created_at" \notin DOMAIN sdata[k]

\* C9: a store-write error is contained to the write that raised it.  When
\* a cycle is over, every task of the fetcher and of the cleaner has
\* returned, and the monitor has left no entry of its snapshot that was to
\* promote beyond the entry it handled last.
C9_WriteErrorContained ==
    /\ fpc = "sleep" => \A i \in DOMAIN ftasks : ftasks[i].pc \in FDone
    /\ cpc = "sleep" => \A i \in DOMAIN ctasks : ctasks[i].pc \in CDone
    /\ spc = "sleep" =>
         \A j \in (sidx + 1)..Len(skeys) :
             Truthy(Get(sdata[skeys[j]], "address", None))
                 => ~ToPromote(sdata[skeys[j]], current_time, stable_existing)

\* C10: when the snapshot read of an ingestion cycle succeeded, a candidate
\* whose address is in the snapshot is neither probed nor inserted in that
\* cycle.
C10_KnownCandidateSkipped ==
    hist.fRead = "ok" =>
        \A i \in DOMAIN ftasks :
            CandidateAddress(ftasks[i].raw) \in hist.fSnap
                => /\ ftasks[i].pc \in {"waiting", "known"}
                   /\ ftasks[i].probe = "none"

\* An ingestion cycle has ended in which a padded candidate was skipped as
\* known and another candidate was probed.
C10_Witness ==
    /\ fpc = "sleep"
    /\ hist.fRead = "ok"
    /\ \E i, j \in DOMAIN ftasks :
         /\ ftasks[i].pc = "known" /\ ftasks[i].raw # ftasks[i].addr
         /\ ftasks[j].probe # "none"

\* C11: a failed insert leaves the in-memory bookkeeping unchanged.  While
\* its batch runs, the fetcher's known set gains an address only in the step
\* in which the POST of a task for that address returned 200 and the record
\* was stored; a task whose POST failed leaves the known set and the working
\* set as they were.  The monitor's known-stable snapshot gains an address
\* only in the step in which the StableRecord of that address was stored, and
\* a failed stable insert leaves it as it was.  Hence every address of either
\* set has a record in its store (nothing is deleted here), and a write that
\* failed is not taken as done by the next cycle.
C11_FailedInsertNotRecorded ==
    [][ /\ fpc = "gather" =>
             \A X \in existing' \ existing :
                 \E i \in DOMAIN ftasks :
                     /\ ftasks[i].pc = "posting" /\ ftasks'[i].pc = "added"
                     /\ ftasks[i].addr = X
                     /\ \E k \in DOMAIN ws' \ DOMAIN ws : ws'[k].address = X
        /\ \A i \in DOMAIN ftasks :
             (ftasks[i].pc = "posting" /\ ftasks'[i].pc = "failed")
                 => existing' = existing /\ ws' = ws
        /\ spc = "posting" =>
             /\ \A X \in stable_existing' \ stable_existing :
                  \E s \in DOMAIN stable' \ DOMAIN stable :
                      /\ stable'[s].address = X
                      /\ stable'[s].original_key = skeys[sidx]
             /\ stable' = stable => stable_existing' = stable_existing
        /\ \A X \in existing : X \in AddressesOf(ws)
        /\ \A X \in stable_existing :
             Truthy(X) => \E s \in DOMAIN stable : stable[s].address = X
      ]_vars

\* An insert of the fetcher and an insert of the monitor have failed: the
\* candidate is not in the known set, and the record that was to promote is
\* not in the known-stable snapshot.
C11_Witness ==
    /\ \E i \in DOMAIN ftasks :
         ftasks[i].pc = "failed" /\ ftasks[i].addr \notin existing
    /\ spc = "sleep" /\ hist.sRead = "wfail"
    /\ \E k \in DOMAIN sdata :
         /\ ToPromote(sdata[k], current_time, stable_existing)
         /\ Truthy(Get(sdata[k], "address", None))

\* C12: a cycle whose first fetch fails or is empty mutates no store.  A
\* failed GET of the bulk source puts the fetcher at its sleep with no task
\* and no read of the working set; a failed or empty read of the working set
\* puts the cleaner at its sleep with no task, and the monitor at its sleep
\* with no read of the stable set; none of these steps changes a store.  A
\* read that answers 200 with a body of unexpected shape is a failed read.  A
\* store changes only in a cycle whose first fetch succeeded: the working set
\* in the batch of a fetcher that has tasks or of a cleaner that read a
\* working set with entries, the stable set at a POST of a monitor that read
\* a working set with entries; and the fetcher probes only in such a batch.
C12_FailedFetchSkipsCycle ==
    [][ /\ (fpc = "start" /\ fpc' \notin {"start", "existing"}) =>
             /\ fpc' = "sleep" /\ ftasks' = <<>> /\ hist'.fRead = "none"
             /\ ws' = ws /\ stable' = stable
        /\ (cpc = "start" /\ cpc' # "start"
                /\ (hist'.cRead = "fail" \/ DOMAIN ws = {})) =>
             /\ cpc' = "sleep" /\ ctasks' = <<>>
             /\ ws' = ws /\ stable' = stable
        /\ (spc = "start" /\ spc' # "start"
                /\ (hist'.sRead \in {"fail", "junk"} \/ DOMAIN ws = {})) =>
             /\ spc' = "sleep" /\ stable_existing' = stable_existing
             /\ ws' = ws /\ stable' = stable
        /\ ws' # ws =>
             \/ fpc = "gather" /\ ftasks # <<>> /\ hist.fRead # "none"
             \/ cpc = "gather" /\ ctasks # <<>> /\ hist.cRead = "ok"
        /\ stable' # stable =>
             spc = "posting" /\ DOMAIN sdata # {} /\ hist.sRead \in {"ok", "wfail"}
        /\ \A i \in DOMAIN ftasks :
             (ftasks[i].pc = "waiting" /\ ftasks' # <<>> /\ ftasks'[i].pc = "probing")
                 => fpc = "gather" /\ hist.fRead # "none"
      ]_vars

\* C13: the cleaner's only effect on the stores is the deletion of
\* working-set keys whose probe failed in the current cycle.  A key leaves
\* the working set only in the step of a check_and_delete task for that key
\* whose probe did not return 200; a key whose probe returned 200 in the
\* current cycle stays; a step of the cleaner adds no key and leaves the
\* stable set alone; and no step of any loop changes the record of a key
\* that stays in the working set.
C13_EvictionOnlyDeletesFailed ==
    [][ /\ \A k \in DOMAIN ws \ DOMAIN ws' :
             /\ cpc = "gather"
             /\ \E i \in DOMAIN ctasks :
                  /\ ctasks[i].key = k
                  /\ ctasks[i].pc = "deleting" /\ ctasks'[i].pc = "removed"
                  /\ ctasks[i].probe \in {"other", "exc"}
        /\ \A i \in DOMAIN ctasks :
             (ctasks[i].probe = "200" /\ ctasks[i].key \in DOMAIN ws)
                 => ctasks[i].key \in DOMAIN ws'
        /\ (ctasks' # ctasks \/ cpc' # cpc) =>
             /\ DOMAIN ws' \subseteq DOMAIN ws
             /\ stable' = stable
        /\ \A k \in DOMAIN ws \cap DOMAIN ws' : ws'[k] = ws[k]
      ]_vars

\* An eviction cycle has ended: the entry probed alive is in the working set
\* with its record, the entry whose probe failed is gone, and the fetcher
\* has inserted a record meanwhile.
C13_Witness ==
    /\ cpc = "sleep"
    /\ \E i, j \in DOMAIN ctasks :
         /\ ctasks[i].probe = "200" /\ ctasks[i].key \in DOMAIN ws
         /\ ws[ctasks[i].key].address = ctasks[i].addr
         /\ ctasks[j].probe \in {"other", "exc"} /\ ctasks[j].key \notin DOMAIN ws
    /\ \E i \in DOMAIN ftasks : ftasks[i].pc = "added"

\* C14: the stable set only grows.  In every step of every loop each
\* StableRecord stays under its key with its fields as they were, and so in
\* the step that deletes the ProxyRecord its original_key refers to.
C14_StableSetOnlyGrows ==
    [][\A s \in DOMAIN stable : s \in DOMAIN stable' /\ stable'[s] = stable[s]]_vars

\* The cleaner has deleted a ProxyRecord that had been promoted: its
\* StableRecord is in the stable set, its key is not in the working set.
C14_Witness ==
    \E s \in DOMAIN stable : \E i \in DOMAIN ctasks :
        /\ ctasks[i].pc = "removed"
        /\ ctasks[i].key = stable[s].original_key
        /\ ctasks[i].addr = stable[s].address
        /\ ctasks[i].key \notin DOMAIN ws

\* C15: every StableRecord has age_seconds >= STABILITY_THRESHOLD.  A
\* StableRecord is created with the key and the address of an entry of the
\* snapshot the running promotion cycle read, and with that entry's age at
\* the time of the read; and the for loop passes over no entry of the
\* snapshot whose age is STABILITY_THRESHOLD or more (the threshold itself
\* included) and whose address is not in the known-stable snapshot.
C15_StableRecordFromSnapshot ==
    [][ /\ \A s \in DOMAIN stable : stable[s].age_seconds >= STABILITY_THRESHOLD
        /\ \A s \in DOMAIN stable' \ DOMAIN stable :
             /\ stable'[s].age_seconds >= STABILITY_THRESHOLD
             /\ stable'[s].original_key \in DOMAIN sdata
             /\ stable'[s].original_key = skeys[sidx]
             /\ stable'[s].address =
                    Get(sdata[stable'[s].original_key], "address", None)
             /\ stable'[s].age_seconds = current_time
                    - Get(sdata[stable'[s].original_key], "created_at", current_time)
        /\ (spc \in {"stable", "posting"} /\ spc' \in {"posting", "sleep"}) =>
             \A j \in (IF spc = "stable" THEN 1 ELSE sidx + 1)..(sidx' - 1) :
                 \/ current_time - Get(sdata[skeys[j]], "created_at", current_time)
                        < STABILITY_THRESHOLD
                 \/ Get(sdata[skeys[j]], "address", None) \in stable_existing'
      ]_vars

\* A record whose age was STABILITY_THRESHOLD exactly has been promoted from
\* a snapshot that the working set has since moved away from.
C15_Witness ==
    /\ sdata # ws
    /\ \E s \in DOMAIN stable :
         /\ stable[s].age_seconds = STABILITY_THRESHOLD
         /\ stable[s].promoted_at = current_time
         /\ stable[s].original_key \in DOMAIN sdata
         /\ stable[s].address = Get(sdata[stable[s].original_key], "address", None)
         /\ Truthy(stable[s].address)
         /\ stable[s].original_key \notin DOMAIN ws

\* Tasks with a probe in flight, and tasks holding a permit of their limiter.
FProbing == {i \in DOMAIN ftasks : ftasks[i].pc = "probing"}
CProbing == {i \in DOMAIN ctasks : ctasks[i].pc = "probing"}
FHolding == {i \in DOMAIN ftasks : ftasks[i].pc \in {"probing", "posting"}}
CHolding == {i \in DOMAIN ctasks : ctasks[i].pc \in {"probing", "deleting"}}

\* C16: bounded fan-out.  At every moment at most CONCURRENCY_LIMIT probes
\* started by the fetcher and at most CONCURRENCY_LIMIT probes started by the
\* cleaner are in flight, hence at most twice CONCURRENCY_LIMIT in all.  Each
\* limiter counts the tasks of its own loop alone: its permits left are
\* CONCURRENCY_LIMIT less the tasks of that loop between acquire and release,
\* and the first waiting task of a loop can start whenever that loop has a
\* permit left, whatever the other loop holds.
C16_BoundedFanOut ==
    /\ Cardinality(FProbing) <= CONCURRENCY_LIMIT
    /\ Cardinality(CProbing) <= CONCURRENCY_LIMIT
    /\ Cardinality(FProbing) + Cardinality(CProbing) <= 2 * CONCURRENCY_LIMIT
    /\ fsem = CONCURRENCY_LIMIT - Cardinality(FHolding)
    /\ csem = CONCURRENCY_LIMIT - Cardinality(CHolding)
    /\ \A i \in DOMAIN ftasks :
         ( /\ fpc = "gather" /\ ftasks[i].pc = "waiting"
           /\ \A j \in 1..(i - 1) : ftasks[j].pc # "waiting"
           /\ Cardinality(FHolding) < CONCURRENCY_LIMIT ) => ENABLED StartTask(i)
    /\ \A i \in DOMAIN ctasks :
         ( /\ cpc = "gather" /\ ctasks[i].pc = "waiting"
           /\ \A j \in 1..(i - 1) : ctasks[j].pc # "waiting"
           /\ Cardinality(CHolding) < CONCURRENCY_LIMIT ) => ENABLED CStartTask(i)

\* Twice CONCURRENCY_LIMIT probes are in flight, CONCURRENCY_LIMIT of each
\* loop, and in each loop a task waits for a permit.
C16_Witness ==
    /\ Cardinality(FProbing) = CONCURRENCY_LIMIT
    /\ Cardinality(CProbing) = CONCURRENCY_LIMIT
    /\ \E i \in DOMAIN ftasks : ftasks[i].pc = "waiting"
    /\ \E i \in DOMAIN ctasks : ctasks[i].pc = "waiting"

Keys == 1..MaxKey

\* The record under key k has address X and is of age STABILITY_THRESHOLD or
\* more.
Aged(k, X) ==
    /\ k \in DOMAIN ws
    /\ Get(ws[k], "address", None) = X
    /\ "created_at" \in DOMAIN ws[k]
    /\ now - ws[k].created_at >= STABILITY_THRESHOLD

Promoted(X) == \E s \in DOMAIN stable : stable[s].address = X

\* C17 as stated: with every store call succeeding and the loops scheduled
\* fairly, a record that is in the working set when its age reaches
\* STABILITY_THRESHOLD eventually has a StableRecord with its address.
C17_EventualPromotion ==
    \A k \in Keys : \A X \in Addresses : Aged(k, X) ~> Promoted(X)

\* C17, amended: such a record eventually has a StableRecord with its
\* address, or has left the working set.
C17_EventualPromotionUnlessEvicted ==
    \A k \in Keys : \A X \in Addresses :
        Aged(k, X) ~> (Promoted(X) \/ k \notin DOMAIN ws)

\* A record of age STABILITY_THRESHOLD has been promoted, is in the working
\* set, and the cleaner has just probed it alive.
C17_Witness ==
    \E k \in Keys : \E X \in Addresses :
        /\ Aged(k, X)
        /\ \E s \in DOMAIN stable :
             stable[s].address = X /\ stable[s].original_key = k
        /\ \E i \in DOMAIN ctasks : ctasks[i].key = k /\ ctasks[i].pc = "alive"

\* C18: every ingestion cycle terminates.  With every network call
\* returning, the fetcher is at its sleep again and again; and at its sleep
\* every task of the batch has returned (blank, known, dead, added or
\* failed) and every permit of the limiter is back; while the batch runs, the
\* permits that are out are held by tasks awaiting a network call, which
\* give them back when it returns.  The known-set guard is
\* taken and released within one step of a task (no await between the two),
\* so it is free at every step.
C18_IngestionTerminates ==
    /\ [](fpc = "sleep" =>
            /\ fsem = CONCURRENCY_LIMIT
            /\ \A i \in DOMAIN ftasks : ftasks[i].pc \in FDone)
    /\ []((fpc = "gather" /\ fsem = 0) => Cardinality(FHolding) = CONCURRENCY_LIMIT)
    /\ (fpc # "sleep") ~> (fpc = "sleep")

\* A batch of three candidates has ended on three paths, inserted, insert
\* failed and dead, and every permit is back.
C18_Witness ==
    /\ fpc = "sleep"
    /\ fsem = CONCURRENCY_LIMIT
    /\ {ftasks[i].pc : i \in DOMAIN ftasks} = {"added", "failed", "dead"}

\* C19: promotion never creates a StableRecord for a working-set record
\* that has no address: every StableRecord has an address.
C19_NoAddressNeverPromoted ==
    \A s \in DOMAIN stable : Truthy(stable[s].address)

====
